---- MODULE Spec2Model ----
(***************************************************************************)
(* Patient record service (src/medic/server.js): the Mongoose schema with  *)
(* its hooks and unique index, and the HTTP handlers that create, update,  *)
(* delete, restore and bulk-modify patient documents.                      *)
(*                                                                         *)
(* Strings that the code inspects character by character (tel) are         *)
(* sequences of one-character strings; the other strings are TLA+ strings. *)
(* Date objects are clock ticks; the en-GB date and time strings are       *)
(* rendered from the tick by LocaleDateString / LocaleTimeString.          *)
(***************************************************************************)
EXTENDS Integers, Sequences, FiniteSets, TLC

\* ------------------------------------------------------------------ bounds
MaxPatients == 2
MaxClock == 1
MaxWrites == 4
\* the largest count of records a completion rate is computed for
MaxCount == 8
\* the number of requests whose store accesses interleave
MaxCalls == 3
\* the longest value of the first column of an exported row, and of the second
MaxFieldLen == 3
MaxTailLen == 1

\* ------------------------------------------------------- program constants
MinTelDigits == 8
MaxTelDigits == 15
MinNameLength == 2
MaxNameLength == 100
MinAge == 0
MaxAge == 150

Sexes == {"Male", "Female"}
FamilyGroups == {"ESDA", "MASUDA", "AKUCDA", "UBACDA", "OTHERS"}

ValidServices ==
    {"General consultations", "Eye consultation", "Gynaecology",
     "Cervical cancer screening", "Sexual and reproductive health",
     "Dental consultation"}

StatusEnum == {"registered", "completed", "cancelled", "deleted"}

\* the value of a path that holds undefined or null
Undefined == "<undefined>"

\* ------------------------------------------------------------ string helpers
DigitChars == {"0", "1", "2", "3", "4", "5", "6", "7", "8", "9"}
SpaceChar == " "

IsDigit(c) == c \in DigitChars

\* v.replace(/\D/g, '')
StripNonDigits(s) == SelectSeq(s, IsDigit)

RECURSIVE TrimLeft(_)
TrimLeft(s) ==
    IF s # <<>> /\ Head(s) = SpaceChar THEN TrimLeft(Tail(s)) ELSE s

RECURSIVE TrimRight(_)
TrimRight(s) ==
    IF s # <<>> /\ s[Len(s)] = SpaceChar
    THEN TrimRight(SubSeq(s, 1, Len(s) - 1))
    ELSE s

\* String.prototype.trim on a character sequence
TrimSeq(s) == TrimLeft(TrimRight(s))

\* s.replace(/\s+/g, ' '): every run of spaces becomes one space
RECURSIVE CollapseSpaces(_)
CollapseSpaces(s) ==
    IF s = <<>> THEN <<>>
    ELSE IF Head(s) = SpaceChar /\ Len(s) > 1 /\ s[2] = SpaceChar
         THEN CollapseSpaces(Tail(s))
         ELSE <<Head(s)>> \o CollapseSpaces(Tail(s))

\* String.prototype.trim on the short strings (service names, status, dates):
\* the blank string trims to the empty string, the others carry no outer blanks
TrimStr(s) == IF s = "  " THEN "" ELSE s

\* JavaScript truthiness of a string-or-undefined value
Truthy(v) == v # Undefined /\ v # ""

\* a JSON number is the fraction num/den in lowest terms, den positive
Num(n) == [num |-> n, den |-> 1]
IsInteger(v) == v.num % v.den = 0
TruthyNumber(v) == v.num # 0

\* the characters /^[a-zA-Z\s\-\.\']+$/ lets through
LetterChars ==
    {"a", "b", "c", "d", "e", "f", "g", "h", "i", "j", "k", "l", "m",
     "n", "o", "p", "q", "r", "s", "t", "u", "v", "w", "x", "y", "z",
     "A", "B", "C", "D", "E", "F", "G", "H", "I", "J", "K", "L", "M",
     "N", "O", "P", "Q", "R", "S", "T", "U", "V", "W", "X", "Y", "Z"}
IsNameChar(c) == c \in LetterChars \cup {SpaceChar, "-", ".", "'"}

\* new Date().toLocaleDateString('en-GB'): two ticks to a day
Dates == <<"01/11/2026", "02/11/2026", "03/11/2026">>
LocaleDateString(t) == Dates[(t \div 2) + 1]

\* new Date().toLocaleTimeString('en-GB')
Times == <<"09:00:00", "21:00:00">>
LocaleTimeString(t) == Times[(t % 2) + 1]

\* the 'i' option of a regular expression: letters compare in lower case
UpperCase ==
    <<"A", "B", "C", "D", "E", "F", "G", "H", "I", "J", "K", "L", "M",
      "N", "O", "P", "Q", "R", "S", "T", "U", "V", "W", "X", "Y", "Z">>
LowerCase ==
    <<"a", "b", "c", "d", "e", "f", "g", "h", "i", "j", "k", "l", "m",
      "n", "o", "p", "q", "r", "s", "t", "u", "v", "w", "x", "y", "z">>
LowerOf ==
    [c \in {UpperCase[i] : i \in 1..Len(UpperCase)} |->
        LowerCase[CHOOSE i \in 1..Len(UpperCase) : UpperCase[i] = c]]
ToLower(c) == IF c \in DOMAIN LowerOf THEN LowerOf[c] ELSE c
LowerSeq(s) == [i \in 1..Len(s) |-> ToLower(s[i])]

\* { $regex: pattern, $options: 'i' } for a pattern of plain characters: the
\* pattern occurs in the string; the empty pattern occurs in every string
RegexMatch(str, pattern) ==
    LET s == LowerSeq(str)
        p == LowerSeq(pattern)
    IN  \E i \in 0..(Len(s) - Len(p)) : SubSeq(s, i + 1, i + Len(p)) = p

\* ---------------------------------------------------------- object helpers
Has(obj, k) == k \in DOMAIN obj

Put(obj, k, v) == [x \in DOMAIN obj \cup {k} |-> IF x = k THEN v ELSE obj[x]]

\* Array.prototype.map over the 'Eye con' alias
EyeConAlias(s) == IF s = "Eye con" THEN "Eye consultation" ELSE s
MapAlias(ss) == [i \in 1..Len(ss) |-> EyeConAlias(ss[i])]

NonBlank(s) == Truthy(s) /\ Truthy(TrimStr(s))
IsInvalidService(s) == s \notin ValidServices

\* the paths whose values are strings: sanitizeInput trims them
TelKeys == {"tel"}
NameKeys == {"name"}
StringKeys ==
    {"service", "status", "completionDate", "completionTime", "sex",
     "occupation", "familyGroup"}

sanitizeInput(obj) ==
    [k \in DOMAIN obj |->
        IF k \in TelKeys \cup NameKeys THEN TrimSeq(obj[k])
        ELSE IF k \in StringKeys THEN TrimStr(obj[k])
        ELSE obj[k]]

\* ------------------------------------------------------------------ schema
\* patientSchema.tel: required, and the validator counts the digits
TelValid(tel) ==
    LET cleaned == StripNonDigits(tel)
    IN  tel # <<>> /\ Len(cleaned) >= MinTelDigits /\ Len(cleaned) <= MaxTelDigits

\* patientSchema.name: required, minlength, maxlength and the validator
NameValid(name) ==
    /\ name # <<>>
    /\ Len(name) >= MinNameLength
    /\ Len(name) <= MaxNameLength
    /\ SelectSeq(name, IsNameChar) = name

\* patientSchema.age: min, max and Number.isInteger
AgeValid(age) ==
    /\ age.num >= MinAge * age.den
    /\ age.num <= MaxAge * age.den
    /\ IsInteger(age)

\* patientSchema.sex and patientSchema.familyGroup: required, enum
SexValid(sex) == sex \in Sexes
FamilyGroupValid(familyGroup) == familyGroup \in FamilyGroups

\* patientSchema.services: required (an empty array fails) and the validator
ServicesValid(services) ==
    Len(services) > 0 /\ \A i \in 1..Len(services) : services[i] \in ValidServices

\* patientSchema.status: enum
StatusValid(status) == status \in StatusEnum

\* document.validate() as save() runs it: every path of the document
ValidateDoc(doc) ==
    /\ NameValid(doc.name)
    /\ AgeValid(doc.age)
    /\ SexValid(doc.sex)
    /\ FamilyGroupValid(doc.familyGroup)
    /\ TelValid(doc.tel) /\ ServicesValid(doc.services) /\ StatusValid(doc.status)

\* update validators (runValidators: true): the paths the update sets
ValidateUpdate(upd) ==
    /\ Has(upd, "name") => NameValid(upd.name)
    /\ Has(upd, "age") => AgeValid(upd.age)
    /\ Has(upd, "sex") => SexValid(upd.sex)
    /\ Has(upd, "familyGroup") => FamilyGroupValid(upd.familyGroup)
    /\ Has(upd, "tel") => TelValid(upd.tel)
    /\ Has(upd, "services") => ServicesValid(upd.services)
    /\ Has(upd, "status") => StatusValid(upd.status)

\* the schema's defaults under the data given to new Patient(...)
NewPatient(patientData, t) ==
    [name |-> patientData.name,
     age |-> patientData.age,
     sex |-> patientData.sex,
     occupation |-> patientData.occupation,
     tel |-> patientData.tel,
     familyGroup |-> patientData.familyGroup,
     service |-> Undefined,
     services |-> patientData.services,
     status |-> patientData.status,
     completionDate |-> "",
     completionTime |-> "",
     lastModified |-> t,
     modificationHistory |-> <<>>,
     isDeleted |-> FALSE,
     deletedAt |-> <<>>,
     createdAt |-> t]

\* an update that replaces the document: the paths it does not set go back to
\* the schema's defaults
Merge_Replace(doc, upd) ==
    [k \in DOMAIN doc |->
        IF Has(upd, k) THEN upd[k]
        ELSE IF k = "status" THEN "registered"
        ELSE IF k \in {"completionDate", "completionTime", "occupation"} THEN ""
        ELSE doc[k]]

\* strict mode: an update sets the schema's paths and drops the other keys
Merge(doc, upd) == [k \in DOMAIN doc |-> IF Has(upd, k) THEN upd[k] ELSE doc[k]]

\* patientSchema.pre('save')
preSave(doc, t) ==
    LET d1 == [doc EXCEPT !.lastModified = t,
                          !.tel = IF doc.tel # <<>>
                                  THEN TrimSeq(CollapseSpaces(doc.tel))
                                  ELSE doc.tel,
                          !.name = IF doc.name # <<>>
                                   THEN TrimSeq(CollapseSpaces(doc.name))
                                   ELSE doc.name]
        d2 == IF Len(d1.services) > 0
              THEN [d1 EXCEPT !.services = MapAlias(d1.services),
                              !.service = Undefined]
              ELSE IF Truthy(d1.service)
              THEN [d1 EXCEPT !.services = <<EyeConAlias(d1.service)>>,
                              !.service = Undefined]
              ELSE d1
    IN  IF Len(d2.services) = 0
        THEN [err |-> "Error", doc |-> doc]
        ELSE [err |-> "none", doc |-> d2]

\* patientSchema.pre(['updateOne', 'findOneAndUpdate'])
preFindOneAndUpdate(upd, t) ==
    LET u1 == Put(upd, "lastModified", t)
    IN  IF Has(u1, "services")
        THEN Put(Put(u1, "services", MapAlias(u1.services)), "service", Undefined)
        ELSE IF Has(u1, "service") /\ Truthy(u1.service)
        THEN Put(Put(u1, "services", <<EyeConAlias(u1.service)>>), "service", Undefined)
        ELSE u1

\* ------------------------------------------------------------------- store
\* patientSchema.index({ tel: 1 }, { unique: true }): no other document of the
\* collection, soft-deleted or not, holds this tel
\* a collection whose tel index is not unique
UniqueTelOk_NoIndex(db, id, tel) == TRUE

UniqueTelOk(db, id, tel) == \A j \in DOMAIN db \ {id} : db[j].tel # tel

\* Patient.findOne({ tel, _id: { $ne: id }, isDeleted: { $ne: true } }) finds one
FindActiveByTel(db, tel, exceptId) ==
    \E j \in DOMAIN db \ {exceptId} : db[j].tel = tel /\ ~db[j].isDeleted

\* document.save(): validation, then the pre('save') hook, then the write
Save(db, id, doc, t) ==
    IF ~ValidateDoc(doc) THEN [err |-> "ValidationError", db |-> db]
    ELSE LET h == preSave(doc, t)
         IN  IF h.err # "none" THEN [err |-> h.err, db |-> db]
             ELSE IF ~UniqueTelOk(db, id, h.doc.tel) THEN [err |-> "E11000", db |-> db]
             ELSE [err |-> "none",
                   db |-> [j \in DOMAIN db \cup {id} |-> IF j = id THEN h.doc ELSE db[j]]]

\* a store that writes the update before it validates it and checks the index
findByIdAndUpdate_WriteFirst(db, id, update, t, runValidators) ==
    LET upd == preFindOneAndUpdate(update, t)
        written == [db EXCEPT ![id] = Merge(db[id], upd)]
    IN  IF runValidators /\ ~ValidateUpdate(upd)
        THEN [err |-> "ValidationError", db |-> written]
        ELSE IF Has(upd, "tel") /\ ~UniqueTelOk(db, id, upd.tel)
        THEN [err |-> "E11000", db |-> written]
        ELSE [err |-> "none", db |-> written]

\* Patient.findByIdAndUpdate(id, update, { new: true, runValidators })
findByIdAndUpdate(db, id, update, t, runValidators) ==
    LET upd == preFindOneAndUpdate(update, t)
    IN  IF runValidators /\ ~ValidateUpdate(upd)
        THEN [err |-> "ValidationError", db |-> db]
        ELSE IF Has(upd, "tel") /\ ~UniqueTelOk(db, id, upd.tel)
        THEN [err |-> "E11000", db |-> db]
        ELSE [err |-> "none", db |-> [db EXCEPT ![id] = Merge(db[id], upd)]]

\* an error handler without the case of the duplicate key
handleError_NoDuplicateCase(err) ==
    CASE err = "ValidationError" -> 400
      [] err = "CastError" -> 400
      [] OTHER -> 500

\* handleError: the response code of a caught error
handleError(err) ==
    CASE err = "ValidationError" -> 400
      [] err = "E11000" -> 409
      [] err = "CastError" -> 400
      [] OTHER -> 500

\* one audit entry; changes is the set of keys of the entry's changes mapping
HistoryEntry(action, changes, t) ==
    [action |-> action, timestamp |-> t, changes |-> changes]

\* addModificationHistory: $push through findByIdAndUpdate, whose hook also
\* sets lastModified; an id that resolves to nothing changes nothing
addModificationHistory(db, id, action, changes, t) ==
    IF id \notin DOMAIN db THEN db
    ELSE [db EXCEPT ![id].modificationHistory =
                        Append(@, HistoryEntry(action, changes, t)),
                    ![id].lastModified = t]

\* patientSchema.methods.softDelete
softDelete(db, id, t) ==
    Save(db, id, [db[id] EXCEPT !.isDeleted = TRUE,
                                !.deletedAt = <<t>>,
                                !.status = "deleted"], t)

\* patientSchema.methods.restore
restore(db, id, t) ==
    Save(db, id, [db[id] EXCEPT !.isDeleted = FALSE,
                                !.deletedAt = <<>>,
                                !.status = "registered"], t)

\* an id generator that hands out the smallest id no stored document holds
ObjectId_Reused(db, counter) ==
    CHOOSE i \in 1..counter : i \notin DOMAIN db /\ \A j \in 1..(i - 1) : j \in DOMAIN db

\* new Patient(...): the _id of the new document is one never given before
ObjectId(db, counter) == counter

\* ---------------------------------------------------------------- handlers
\* a handler's outcome: the response code and the collection it leaves
Response(code, db) == [code |-> code, db |-> db]

\* POST /api/patients: requiredFields.filter(field => !patientData[field])
MissingFields(inputData) ==
    {k \in {"name", "age", "sex", "tel", "familyGroup"} :
        \/ ~Has(inputData, k)
        \/ k \in {"name", "tel"} /\ inputData[k] = <<>>
        \/ k = "age" /\ ~TruthyNumber(inputData[k])
        \/ k \in {"sex", "familyGroup"} /\ ~Truthy(inputData[k])}

\* POST /api/patients up to its first store access: the code of a rejected
\* body (0 when the body passes) and the patientData of one that passes
postPatientsPrepare(body) ==
    LET inputData == sanitizeInput(body)
        hasServices == Has(inputData, "services") /\ Len(inputData.services) > 0
        hasService == Has(inputData, "service") /\ Truthy(inputData.service)
                      /\ Truthy(TrimStr(inputData.service))
        services == IF hasServices THEN SelectSeq(inputData.services, NonBlank)
                    ELSE <<TrimStr(inputData.service)>>
        patientData == [name |-> inputData.name,
                        age |-> inputData.age,
                        sex |-> inputData.sex,
                        occupation |-> IF Has(inputData, "occupation")
                                          /\ Truthy(inputData.occupation)
                                       THEN inputData.occupation ELSE "",
                        tel |-> inputData.tel,
                        familyGroup |-> inputData.familyGroup,
                        services |-> services,
                        status |-> "registered"]
        code == IF ~hasServices /\ ~hasService THEN 400
                ELSE IF MissingFields(inputData) # {} THEN 400
                ELSE IF SelectSeq(services, IsInvalidService) # <<>> THEN 400
                ELSE 0
    IN  [code |-> code, patientData |-> IF code = 0 THEN patientData ELSE <<>>]

\* POST /api/patients
postPatients(db, body, newId, t) ==
    LET prepared == postPatientsPrepare(body)
        patientData == prepared.patientData
    IN  IF prepared.code # 0 THEN Response(prepared.code, db)
        ELSE IF FindActiveByTel(db, patientData.tel, newId) THEN Response(409, db)
        ELSE LET saved == Save(db, newId, NewPatient(patientData, t), t)
             IN  IF saved.err # "none" THEN Response(handleError(saved.err), saved.db)
                 ELSE Response(201,
                        addModificationHistory(saved.db, newId, "created",
                                               DOMAIN patientData, t))

\* an update that does not look at isDeleted
UpdateTargetDeleted_NoGuard(currentPatient) == FALSE

\* PUT /api/patients: the guard on a soft-deleted target
UpdateTargetDeleted(currentPatient) == currentPatient.isDeleted

\* PUT /api/patients: the completion stamp is added on the move into completed
IsCompleting(sanitizedData, currentPatient) ==
    /\ Has(sanitizedData, "status")
    /\ sanitizedData.status = "completed"
    /\ currentPatient.status # "completed"

\* PUT /api/patients: the keys whose JSON differs between record and payload
ChangedKeys(currentPatient, sanitizedData) ==
    {k \in DOMAIN sanitizedData :
        IF Has(currentPatient, k) THEN currentPatient[k] # sanitizedData[k]
        ELSE FALSE}

\* PUT /api/patients: the action of the audit entry
UpdateAction(sanitizedData) ==
    IF Has(sanitizedData, "status") /\ sanitizedData.status = "completed"
    THEN "completed" ELSE "updated"

\* PUT /api/patients between reading the record and the next store access:
\* the code of a rejected payload (0 when it passes) and the sanitizedData
putPatientsPrepare(currentPatient, updateData, t) ==
    LET s0 == sanitizeInput(updateData)
        s1 == IF Has(s0, "services") /\ Len(s0.services) > 0
              THEN Put(Put(s0, "services", SelectSeq(s0.services, NonBlank)),
                       "service", Undefined)
              ELSE IF Has(s0, "service") /\ Truthy(s0.service)
                      /\ Truthy(TrimStr(s0.service))
              THEN Put(Put(s0, "services", <<TrimStr(s0.service)>>),
                       "service", Undefined)
              ELSE s0
        s2 == IF IsCompleting(s1, currentPatient)
              THEN Put(Put(s1, "completionDate", LocaleDateString(t)),
                       "completionTime", LocaleTimeString(t))
              ELSE s1
    IN  [code |-> IF Has(s1, "services")
                     /\ SelectSeq(s1.services, IsInvalidService) # <<>>
                  THEN 400
                  ELSE IF Has(s1, "services") /\ Len(s1.services) = 0 THEN 400
                  ELSE 0,
         sanitizedData |-> s2]

\* PUT /api/patients: the tel of the payload is looked up among the others
ChecksTel(currentPatient, sanitizedData) ==
    Has(sanitizedData, "tel") /\ sanitizedData.tel # <<>>
    /\ sanitizedData.tel # currentPatient.tel

\* PUT /api/patients
putPatients(db, id, updateData, t) ==
    IF id \notin DOMAIN db THEN Response(404, db)
    ELSE IF UpdateTargetDeleted(db[id]) THEN Response(410, db)
    ELSE
    LET currentPatient == db[id]
        prepared == putPatientsPrepare(currentPatient, updateData, t)
        s2 == prepared.sanitizedData
    IN  IF prepared.code # 0 THEN Response(prepared.code, db)
        ELSE IF ChecksTel(currentPatient, s2) /\ FindActiveByTel(db, s2.tel, id)
        THEN Response(409, db)
        ELSE LET updated == findByIdAndUpdate(db, id, s2, t, TRUE)
             IN  IF updated.err # "none"
                 THEN Response(handleError(updated.err), updated.db)
                 ELSE Response(200,
                        addModificationHistory(updated.db, id, UpdateAction(s2),
                                               ChangedKeys(currentPatient, s2), t))

\* ---------------------------------------------------------------- CSV export
\* the characters a CSV text gives a meaning to
Comma == ","
Quote == "\""
Newline == "\n"

\* str.includes(c)
Includes(str, c) == \E i \in 1..Len(str) : str[i] = c

RECURSIVE ReplaceQuotes(_)
\* str.replace(/"/g, '""')
ReplaceQuotes(str) ==
    IF str = <<>> THEN <<>>
    ELSE (IF Head(str) = Quote THEN <<Quote, Quote>> ELSE <<Head(str)>>)
         \o ReplaceQuotes(Tail(str))

\* an escaping that quotes the field and leaves its quotes single
escapeCsvField_NoDoubling(field) ==
    IF Includes(field, Comma) \/ Includes(field, Quote) \/ Includes(field, Newline)
    THEN <<Quote>> \o field \o <<Quote>>
    ELSE field

\* convertToCSV.escapeCsvField on a string
escapeCsvField(field) ==
    IF Includes(field, Comma) \/ Includes(field, Quote) \/ Includes(field, Newline)
    THEN <<Quote>> \o ReplaceQuotes(field) \o <<Quote>>
    ELSE field

RECURSIVE Join(_, _)
\* array.join(separator) of an array of strings
Join(strs, separator) ==
    IF strs = <<>> THEN <<>>
    ELSE IF Len(strs) = 1 THEN strs[1]
    ELSE strs[1] \o separator \o Join(Tail(strs), separator)

\* 'No data available for export'
NoDataText ==
    <<"N", "o", " ", "d", "a", "t", "a", " ", "a", "v", "a", "i", "l", "a", "b",
      "l", "e", " ", "f", "o", "r", " ", "e", "x", "p", "o", "r", "t">>

\* the headers of the columns of the rows
Headers == << <<"I", "D">>, <<"N", "a", "m", "e">> >>

\* convertToCSV: the header line and one line for each row, a row being the
\* values of its columns
convertToCSV(rows) ==
    IF rows = <<>> THEN NoDataText
    ELSE
    Join(<<Join(Headers, <<Comma>>)>>
         \o [i \in 1..Len(rows) |->
                Join([k \in 1..Len(rows[i]) |-> escapeCsvField(rows[i][k])],
                     <<Comma>>)],
         <<Newline>>)

\* GET /api/patients/:id: the document, without its history unless asked for
getPatient(db, id, includeHistory) ==
    IF id \notin DOMAIN db THEN [code |-> 404, data |-> <<>>]
    ELSE [code |-> 200,
          data |-> IF includeHistory THEN db[id]
                   ELSE [k \in DOMAIN db[id] \ {"modificationHistory"} |-> db[id][k]]]

\* GET /api/patients/:id/history
getHistory(db, id) ==
    IF id \notin DOMAIN db THEN [code |-> 404, data |-> <<>>]
    ELSE [code |-> 200,
          data |-> [patientName |-> db[id].name,
                    services |-> db[id].services,
                    history |-> db[id].modificationHistory]]

\* DELETE /api/patients/:id (permanent = 'true' removes the document)
deletePatient(db, id, permanent, t) ==
    IF id \notin DOMAIN db THEN Response(404, db)
    ELSE IF permanent THEN Response(200, [j \in DOMAIN db \ {id} |-> db[j]])
    ELSE LET saved == softDelete(db, id, t)
         IN  IF saved.err # "none" THEN Response(handleError(saved.err), db)
             ELSE Response(200,
                    addModificationHistory(saved.db, id, "deleted", {"deletedAt"}, t))

\* POST /api/delete: the legacy route removes the document
postDelete(db, id) ==
    IF id \notin DOMAIN db THEN Response(404, db)
    ELSE Response(200, [j \in DOMAIN db \ {id} |-> db[j]])

\* a restore that does not look at isDeleted
RestoreTargetNotDeleted_NoGuard(patient) == FALSE

\* POST /api/patients/:id/restore: the guard on a target that is not deleted
RestoreTargetNotDeleted(patient) == ~patient.isDeleted

\* POST /api/patients/:id/restore
postRestore(db, id, t) ==
    IF id \notin DOMAIN db THEN Response(404, db)
    ELSE IF RestoreTargetNotDeleted(db[id]) THEN Response(400, db)
    ELSE LET saved == restore(db, id, t)
         IN  IF saved.err # "none" THEN Response(handleError(saved.err), db)
             ELSE Response(200,
                    addModificationHistory(saved.db, id, "updated", {"restored"}, t))

\* Patient.updateMany on the matching documents, one after the other; the
\* unique index stops the run at the first document whose tel it refuses and
\* the documents written before it stay written
RECURSIVE updateMany(_, _, _)
updateMany(db, order, upd) ==
    IF order = <<>> THEN [err |-> "none", db |-> db]
    ELSE LET id == Head(order)
         IN  IF Has(upd, "tel") /\ ~UniqueTelOk(db, id, upd.tel)
             THEN [err |-> "E11000", db |-> db]
             ELSE updateMany([db EXCEPT ![id] = Merge(db[id], upd)], Tail(order), upd)

\* the orders in which the store may visit a set of documents
Orders(S) ==
    {o \in [1..Cardinality(S) -> S] : \A i, j \in 1..Cardinality(S) : o[i] = o[j] => i = j}

\* POST /api/patients/bulk: the target ids, given or found by the filters
BulkTargetIds(db, body) ==
    IF Has(body, "patientIds") THEN body.patientIds
    ELSE IF Has(body, "filters")
    THEN {j \in DOMAIN db :
            /\ ~db[j].isDeleted
            /\ Has(body.filters, "status") => db[j].status = body.filters.status}
    ELSE {}

\* a bulk complete whose query does not look at the status
BulkMatch_AnyStatus(db, operation, targetIds) ==
    LET found == targetIds \cap DOMAIN db
    IN  CASE operation = "delete" -> found
          [] operation = "permanentDelete" -> found
          [] operation = "restore" -> {j \in found : db[j].isDeleted}
          [] operation = "update" -> {j \in found : ~db[j].isDeleted}
          [] operation = "complete" -> {j \in found : ~db[j].isDeleted}
          [] OTHER -> {}

\* POST /api/patients/bulk: the documents each operation's query matches
BulkMatch(db, operation, targetIds) ==
    LET found == targetIds \cap DOMAIN db
    IN  CASE operation = "delete" -> found
          [] operation = "permanentDelete" -> found
          [] operation = "restore" -> {j \in found : db[j].isDeleted}
          [] operation = "update" -> {j \in found : ~db[j].isDeleted}
          [] operation = "complete" ->
                {j \in found : db[j].status = "registered" /\ ~db[j].isDeleted}
          [] OTHER -> {}

\* POST /api/patients/bulk: the update document of each operation
BulkUpdateDoc(operation, body, t) ==
    CASE operation = "delete" ->
            [isDeleted |-> TRUE, deletedAt |-> <<t>>, status |-> "deleted",
             lastModified |-> t]
      [] operation = "restore" ->
            [isDeleted |-> FALSE, deletedAt |-> <<>>, status |-> "registered",
             lastModified |-> t]
      [] operation = "complete" ->
            [status |-> "completed", completionDate |-> LocaleDateString(t),
             completionTime |-> LocaleTimeString(t), lastModified |-> t]
      [] OTHER -> Put(sanitizeInput(body.updateData), "lastModified", t)

\* POST /api/patients/bulk; order is the order in which the store visits the
\* matching documents
postBulk(db, body, order, t) ==
    LET operation == body.operation
        targetIds == BulkTargetIds(db, body)
    IN  IF targetIds = {} THEN Response(400, db)
        ELSE IF operation = "permanentDelete"
        THEN Response(200, [j \in DOMAIN db \ targetIds |-> db[j]])
        ELSE IF operation = "update" /\ ~Has(body, "updateData") THEN Response(400, db)
        ELSE IF /\ operation = "update"
                /\ Has(body.updateData, "services")
                /\ SelectSeq(body.updateData.services, IsInvalidService) # <<>>
        THEN Response(400, db)
        ELSE IF operation \notin {"delete", "restore", "update", "complete"}
        THEN Response(400, db)
        ELSE LET result == updateMany(db, order, BulkUpdateDoc(operation, body, t))
             IN  IF result.err # "none" THEN Response(handleError(result.err), result.db)
                 ELSE Response(200, result.db)

\* POST /api/patients/bulk: affectedCount, result.modifiedCount ||
\* result.deletedCount || 0 of the store's result for the run from db to after
affectedCount(db, after) ==
    LET modifiedCount ==
            Cardinality({j \in DOMAIN db \cap DOMAIN after : after[j] # db[j]})
        deletedCount == Cardinality(DOMAIN db \ DOMAIN after)
    IN  IF modifiedCount # 0 THEN modifiedCount ELSE deletedCount

\* ------------------------------------------------------------ read handlers
\* the elements of an array
Elements(arr) == {arr[i] : i \in 1..Len(arr)}

\* one clause of a $or about the service: { service: x } or { services: x }
ServiceClause(x) == [kind |-> "service", service |-> x]

\* the $or of a free-text search: the name, or the tel against the digits of
\* the text
SearchClause(text) ==
    [kind |-> "search", name |-> TrimSeq(text),
     tel |-> StripNonDigits(TrimSeq(text))]

ClauseMatches(doc, clause) ==
    IF clause.kind = "service"
    THEN doc.service = clause.service \/ clause.service \in Elements(doc.services)
    ELSE RegexMatch(doc.name, clause.name) \/ RegexMatch(doc.tel, clause.tel)

\* a day of the calendar holds two ticks of the clock: new Date(dateFrom) is
\* its first instant, setHours(23, 59, 59, 999) its last
StartOfDay(day) == 2 * day
EndOfDay(day) == 2 * day + 1

\* Patient.find(query): the document satisfies every key of the query
Matches(doc, query) ==
    /\ Has(query, "isDeleted") => doc.isDeleted = query.isDeleted
    /\ Has(query, "status") => doc.status = query.status
    /\ Has(query, "familyGroup") => doc.familyGroup = query.familyGroup
    /\ Has(query, "$or") => ClauseMatches(doc, query["$or"])
    /\ Has(query, "$and") => \A c \in query["$and"] : ClauseMatches(doc, c)
    /\ Has(query, "$gte") => doc.createdAt >= query["$gte"]
    /\ Has(query, "$lte") => doc.createdAt <= query["$lte"]

Find(db, query) == {j \in DOMAIN db : Matches(db[j], query)}

\* .sort('-createdAt'): the orders of S the store may return, newest first
NewestFirst(db, S) ==
    {o \in Orders(S) :
        \A i, j \in 1..Len(o) : i < j => db[o[i]].createdAt >= db[o[j]].createdAt}

\* .limit(limit).skip((page - 1) * limit) on the sorted ids
Page(o, page, limit) ==
    LET first == (page - 1) * limit + 1
        last == IF page * limit < Len(o) THEN page * limit ELSE Len(o)
    IN  SubSeq(o, first, last)

\* .select('-modificationHistory') / .lean(): the documents of the ids
Docs(db, o, withHistory) ==
    [i \in 1..Len(o) |->
        LET doc == Put(db[o[i]], "_id", o[i])
        IN  IF withHistory THEN doc
            ELSE [k \in DOMAIN doc \ {"modificationHistory"} |-> doc[k]]]

\* an optional parameter of a request and its default
Param(q, k, default) == IF Has(q, k) THEN q[k] ELSE default

\* the date range of a query on createdAt
WithDateRange(query, q) ==
    LET q1 == IF Has(q, "dateFrom")
              THEN Put(query, "$gte", StartOfDay(q.dateFrom)) ELSE query
    IN  IF Has(q, "dateTo") THEN Put(q1, "$lte", EndOfDay(q.dateTo)) ELSE q1

\* GET /api/patients: the query built from the request's parameters
ListQuery(q) ==
    LET q0 == IF Param(q, "includeDeleted", "false") # "true"
              THEN [isDeleted |-> FALSE] ELSE <<>>
        q1 == IF Has(q, "status") /\ q.status # "all"
              THEN Put(q0, "status", q.status) ELSE q0
        q2 == IF Has(q, "service") THEN Put(q1, "$or", ServiceClause(q.service))
              ELSE IF Has(q, "services")
              THEN Put(q1, "$or", ServiceClause(q.services)) ELSE q1
        q3 == IF Has(q, "familyGroup") /\ q.familyGroup # "all"
              THEN Put(q2, "familyGroup", q.familyGroup) ELSE q2
        q4 == IF Has(q, "search") /\ TrimSeq(q.search) # <<>>
              THEN Put(q3, "$or", SearchClause(q.search)) ELSE q3
    IN  WithDateRange(q4, q)

\* GET /api/patients; order is the sorted order the store returns
listPatients(db, q, order) ==
    LET limit == Param(q, "limit", 1000)
        page == Param(q, "page", 1)
        found == Find(db, ListQuery(q))
    IN  [code |-> 200,
         data |-> Docs(db, Page(order, page, limit), TRUE),
         totalPatients |-> Cardinality(found)]

\* POST /api/search: the query built from the request's body
SearchQuery(body) ==
    LET filters == Param(body, "filters", <<>>)
        q0 == [isDeleted |-> FALSE]
        q1 == Put(q0, "$or", SearchClause(body.query))
        q2 == IF Has(filters, "status") /\ filters.status # "all"
              THEN Put(q1, "status", filters.status) ELSE q1
        q3 == IF Has(filters, "service")
              THEN Put(q2, "$and", {ServiceClause(filters.service)}) ELSE q2
        q4 == IF Has(filters, "familyGroup") /\ filters.familyGroup # "all"
              THEN Put(q3, "familyGroup", filters.familyGroup) ELSE q3
    IN  WithDateRange(q4, filters)

\* POST /api/search
postSearch(db, body, order) ==
    IF ~Has(body, "query") \/ TrimSeq(body.query) = <<>>
    THEN [code |-> 400, data |-> <<>>]
    ELSE [code |-> 200,
          data |-> Docs(db, Page(order, 1, Param(body, "limit", 50)), FALSE)]

\* Patient.countDocuments(query); countDocuments() is the empty query
countDocuments(db, query) == Cardinality(Find(db, query))

\* Math.round(num / den * 100) of two counts
MathRoundPercent(num, den) == (200 * num + den) \div (2 * den)

\* completed / active as a percentage, 0 without active records
completionRate(completed, active) ==
    IF active > 0 THEN MathRoundPercent(completed, active) ELSE 0

\* a day is two ticks of the clock
DayTicks == 2

\* the counts GET /api/health and GET /api/stats share; since is the start of
\* the period of the recent registrations
Counts(db, since) ==
    [totalPatients |-> countDocuments(db, <<>>),
     activePatients |-> countDocuments(db, [isDeleted |-> FALSE]),
     pendingPatients |->
         countDocuments(db, [status |-> "registered", isDeleted |-> FALSE]),
     completedPatients |->
         countDocuments(db, [status |-> "completed", isDeleted |-> FALSE]),
     deletedPatients |-> countDocuments(db, [isDeleted |-> TRUE]),
     recentRegistrations |->
         countDocuments(db, [isDeleted |-> FALSE] @@ ("$gte" :> since))]

\* the earlier version's rate: completed over all the documents
statsOverview_RateOverTotal(db, t, daysBack) ==
    LET c == Counts(db, t - daysBack * DayTicks)
    IN  [totalPatients |-> c.totalPatients,
         activePatients |-> c.activePatients,
         pendingTests |-> c.pendingPatients,
         completedRecords |-> c.completedPatients,
         deletedPatients |-> c.deletedPatients,
         completionRate |-> completionRate(c.completedPatients, c.totalPatients),
         recentRegistrations |-> c.recentRegistrations]

\* GET /api/stats: the overview
statsOverview(db, t, daysBack) ==
    LET c == Counts(db, t - daysBack * DayTicks)
    IN  [totalPatients |-> c.totalPatients,
         activePatients |-> c.activePatients,
         pendingTests |-> c.pendingPatients,
         completedRecords |-> c.completedPatients,
         deletedPatients |-> c.deletedPatients,
         completionRate |-> completionRate(c.completedPatients, c.activePatients),
         recentRegistrations |-> c.recentRegistrations]

\* GET /api/health: the stats of the answer
getHealth(db, t) ==
    LET c == Counts(db, t - DayTicks)
    IN  [code |-> 200,
         stats |-> [totalPatients |-> c.totalPatients,
                    activePatients |-> c.activePatients,
                    pendingPatients |-> c.pendingPatients,
                    completedPatients |-> c.completedPatients,
                    deletedPatients |-> c.deletedPatients,
                    recentRegistrations |-> c.recentRegistrations,
                    completionRate |->
                        completionRate(c.completedPatients, c.activePatients)]]

\* the $project of the service statistics: the services of a document, or its
\* legacy service when it has none
allServices(doc) ==
    IF Len(doc.services) > 0 THEN doc.services
    ELSE IF Truthy(doc.service) THEN <<doc.service>> ELSE <<>>

\* $group ... count: { $sum: 1 } reduced to an object: the number of items
\* under each key, keyOf giving the key of an item
GroupCount(items, keyOf) ==
    [k \in {keyOf[x] : x \in items} |-> Cardinality({x \in items : keyOf[x] = k})]

\* $match, $project, $unwind and $group of the service statistics: one item for
\* each position of allServices of each document that is not deleted
serviceDistribution(db) ==
    LET live == Find(db, [isDeleted |-> FALSE])
        items == UNION {{<<j, i>> : i \in 1..Len(allServices(db[j]))} : j \in live}
    IN  GroupCount(items, [x \in items |-> allServices(db[x[1]])[x[2]]])

familyGroupDistribution(db) ==
    LET live == Find(db, [isDeleted |-> FALSE])
    IN  GroupCount(live, [j \in live |-> db[j].familyGroup])

dailyRegistrations(db, since) ==
    LET recent == Find(db, [isDeleted |-> FALSE] @@ ("$gte" :> since))
    IN  GroupCount(recent, [j \in recent |-> LocaleDateString(db[j].createdAt)])

completionTrend(db) ==
    LET done == Find(db, [status |-> "completed", isDeleted |-> FALSE])
    IN  GroupCount(done, [j \in done |-> db[j].completionDate])

\* GET /api/stats
getStats(db, t, daysBack) ==
    [code |-> 200,
     overview |-> statsOverview(db, t, daysBack),
     serviceDistribution |-> serviceDistribution(db),
     familyGroupDistribution |-> familyGroupDistribution(db),
     dailyRegistrations |-> dailyRegistrations(db, t - daysBack * DayTicks),
     completionTrend |-> completionTrend(db)]

\* the routes in the order the application registers them; a path is the
\* sequence of its segments
Routes ==
    <<[method |-> "GET", path |-> <<"api", "health">>, handler |-> "getHealth"],
      [method |-> "GET", path |-> <<"api", "patients">>, handler |-> "listPatients"],
      [method |-> "POST", path |-> <<"api", "patients">>, handler |-> "postPatients"],
      [method |-> "PUT", path |-> <<"api", "patients">>, handler |-> "putPatients"],
      [method |-> "GET", path |-> <<"api", "patients", ":id">>, handler |-> "getPatient"],
      [method |-> "POST", path |-> <<"api", "patient">>, handler |-> "postPatient"],
      [method |-> "GET", path |-> <<"api", "stats">>, handler |-> "getStats"],
      [method |-> "POST", path |-> <<"api", "search">>, handler |-> "postSearch"],
      [method |-> "DELETE", path |-> <<"api", "patients", ":id">>,
       handler |-> "deletePatient"],
      [method |-> "POST", path |-> <<"api", "delete">>, handler |-> "postDelete"],
      [method |-> "GET", path |-> <<"api", "export">>, handler |-> "getExport"],
      [method |-> "POST", path |-> <<"api", "patients", ":id", "restore">>,
       handler |-> "postRestore"],
      [method |-> "GET", path |-> <<"api", "patients", "deleted">>,
       handler |-> "getDeleted"],
      [method |-> "GET", path |-> <<"api", "patients", ":id", "history">>,
       handler |-> "getHistory"],
      [method |-> "GET", path |-> <<"api", "system">>, handler |-> "getSystem"],
      [method |-> "POST", path |-> <<"api", "patients", "bulk">>,
       handler |-> "postBulk"]>>

\* a route matches a request of its method whose path has its segments, a
\* parameter segment standing for any segment
RouteMatches(route, method, path) ==
    /\ route.method = method
    /\ Len(route.path) = Len(path)
    /\ \A i \in 1..Len(path) : route.path[i] = ":id" \/ route.path[i] = path[i]

\* the handler a request is given to: that of the first route registered that
\* matches it, or the 404 handler behind the routes
Dispatch(method, path) ==
    LET hits == {i \in 1..Len(Routes) : RouteMatches(Routes[i], method, path)}
    IN  IF hits = {} THEN "notFound"
        ELSE Routes[CHOOSE i \in hits : \A k \in hits : i <= k].handler

\* mongoose.Types.ObjectId.isValid: the segment is the text of an id
validateObjectId(segment) == \E j \in 1..(MaxPatients + 1) : ToString(j) = segment
ParseObjectId(segment) ==
    CHOOSE j \in 1..(MaxPatients + 1) : ToString(j) = segment

\* GET /api/patients/:id with the id segment of the path
getPatientById(db, segment, includeHistory) ==
    IF ~validateObjectId(segment) THEN [code |-> 400, data |-> <<>>]
    ELSE getPatient(db, ParseObjectId(segment), includeHistory)

\* .sort({ deletedAt: -1 }): the orders of S, last deleted first, a record
\* without deletedAt last
LastDeletedFirst(db, S) ==
    LET key(j) == IF db[j].deletedAt = <<>> THEN 0 - 1 ELSE db[j].deletedAt[1]
    IN  {o \in Orders(S) : \A i, j \in 1..Len(o) : i < j => key(o[i]) >= key(o[j])}

\* the handler registered for GET /api/patients/deleted
getDeleted(db, q, order) ==
    [code |-> 200,
     data |-> Docs(db, Page(order, Param(q, "page", 1), Param(q, "limit", 100)), FALSE),
     totalPatients |-> countDocuments(db, [isDeleted |-> TRUE])]

\* the answer to the request GET /api/patients/deleted
requestDeleted(db, q, order) ==
    LET path == <<"api", "patients", "deleted">>
        handler == Dispatch("GET", path)
    IN  IF handler = "getDeleted" THEN getDeleted(db, q, order)
        ELSE IF handler = "getPatient"
        THEN getPatientById(db, path[3], Param(q, "includeHistory", "false") = "true")
        ELSE [code |-> 404, data |-> <<>>]

\* GET /api/export: the query built from the request's parameters
ExportQuery(q) ==
    LET q0 == IF Param(q, "includeDeleted", "false") # "true"
              THEN [isDeleted |-> FALSE] ELSE <<>>
        q1 == IF Has(q, "status") /\ q.status # "all"
              THEN Put(q0, "status", q.status) ELSE q0
        q2 == IF Has(q, "service") THEN Put(q1, "$or", ServiceClause(q.service))
              ELSE q1
        q3 == IF Has(q, "familyGroup") /\ q.familyGroup # "all"
              THEN Put(q2, "familyGroup", q.familyGroup) ELSE q2
    IN  WithDateRange(q3, q)

\* GET /api/export (format json): the exported documents
getExport(db, q, order) ==
    [code |-> 200, patients |-> Docs(db, order, FALSE)]

\* ------------------------------------------------------------------ inputs
TelA == <<"1", "2", "3", "4", "5", "6", "7", "8">>
TelADash == <<"1", "2", "3", "4", "-", "5", "6", "7", "8">>
TelASpaces == <<"1", "2", "3", "4", " ", " ", "5", "6", "7", "8">>
TelShort == <<"1", "2", "3", "4">>

TelInputs == {TelA, TelADash, TelASpaces, TelShort}

ServicesInputs ==
    {<<>>, <<"  ">>, <<"Gynaecology">>, <<"Eye con", "Gynaecology">>,
     <<"Eye consultation", "Gynaecology">>}

ServiceInputs == {"Gynaecology", "Eye con", "  "}

NameAl == <<"A", "l">>
NameSpaced == <<" ", "A", " ", " ", "B">>
NameDigit == <<"A", "1">>
NameOne == <<"A">>

\* 30.5
AgeHalf == [num |-> 61, den |-> 2]

\* the personal fields of a registration form
PersonFields == [name |-> NameAl, age |-> Num(30), sex |-> "Female", familyGroup |-> "ESDA"]

\* body b on the form: the fields of b, and the form's for the others
OnForm(b) ==
    [k \in DOMAIN PersonFields \cup DOMAIN b |->
        IF Has(b, k) THEN b[k] ELSE PersonFields[k]]

\* the form without field k
FormWithout(k) ==
    [x \in (DOMAIN PersonFields \ {k}) \cup {"tel", "services"} |->
        IF x = "tel" THEN TelA
        ELSE IF x = "services" THEN <<"Gynaecology">>
        ELSE PersonFields[x]]

AgeInputs == {Num(0), Num(150), Num(151), Num(0 - 1), AgeHalf}

\* request bodies of POST /api/patients
CreateBodies ==
    {OnForm([tel |-> tl, services |-> <<"Gynaecology">>]) : tl \in TelInputs}
    \cup {OnForm([tel |-> TelA, services |-> ss]) : ss \in ServicesInputs}
    \cup {OnForm([tel |-> TelA, service |-> sv]) : sv \in ServiceInputs}
    \cup {OnForm([tel |-> TelA, services |-> ss, service |-> "Gynaecology"]) :
            ss \in {<<>>, <<"  ">>}}
    \cup {OnForm([services |-> <<"Gynaecology">>]), OnForm([tel |-> TelA])}
    \cup {OnForm([tel |-> TelA, services |-> <<"Gynaecology">>, age |-> a]) :
            a \in AgeInputs}
    \cup {OnForm([tel |-> TelA, services |-> <<"Gynaecology">>, name |-> n]) :
            n \in {NameSpaced, NameDigit, NameOne}}
    \cup {FormWithout(k) : k \in DOMAIN PersonFields}
    \cup {OnForm([tel |-> TelA, services |-> <<"Gynaecology">>, sex |-> "Male",
                  occupation |-> "Nurse", familyGroup |-> "OTHERS"])}

\* update payloads of PUT /api/patients
UpdatePayloads ==
    {[status |-> st] : st \in StatusEnum}
    \cup {[tel |-> tl] : tl \in TelInputs}
    \cup {[services |-> ss] : ss \in ServicesInputs}
    \cup {[service |-> sv] : sv \in ServiceInputs}
    \cup {[isDeleted |-> TRUE], [modificationHistory |-> <<>>]}
    \cup {[completionDate |-> "", completionTime |-> ""],
          [completionDate |-> "31/12/2025"],
          [status |-> "completed", completionDate |-> ""]}
    \cup {[name |-> NameSpaced], [name |-> NameOne], [age |-> Num(0)],
          [age |-> AgeHalf]}

\* updateData of the bulk update
BulkUpdatePayloads ==
    {[status |-> "completed"], [status |-> "deleted"], [tel |-> TelADash],
     [services |-> <<>>], [services |-> <<"  ">>], [service |-> "Gynaecology"],
     [modificationHistory |-> <<>>]}

Ids == 1..MaxPatients

\* request bodies of POST /api/patients/bulk
BulkSelectors ==
    {[patientIds |-> S] : S \in SUBSET Ids}
    \cup {[filters |-> [status |-> "registered"]]}

BulkBodies(operation, payloads) ==
    IF operation = "update"
    THEN {Put(Put(sel, "operation", operation), "updateData", u) :
            sel \in BulkSelectors, u \in payloads}
         \cup {[operation |-> operation, patientIds |-> Ids]}
    ELSE {Put(sel, "operation", operation) : sel \in BulkSelectors}

\* the orders the store may take: they differ in outcome only when the unique
\* index can stop the run
BulkOrders(S, body) ==
    IF Has(body, "updateData") /\ Has(body.updateData, "tel")
    THEN Orders(S)
    ELSE {CHOOSE o \in Orders(S) : TRUE}

\* ------------------------------------------------------------------- state
VARIABLES
    patients,       \* the collection: id -> document
    nextId,         \* the id the store gives to the next inserted document
    now,            \* the clock the handlers read
    writes,         \* the number of requests that changed the collection
    everCompleted,  \* history: the ids whose status has been 'completed'
    removed,        \* history: the ids whose document was removed for good
    calls,          \* the requests whose store accesses interleave, in order
    csv             \* an export: the row given to convertToCSV and its text

vars == <<patients, nextId, now, writes, everCompleted, removed, calls, csv>>

\* no export under way
NoCsv == [row |-> <<>>, text |-> <<>>, done |-> FALSE]

\* the store and the clock at the start
InitStore ==
    /\ patients = <<>>
    /\ nextId = 1
    /\ now = 0
    /\ writes = 0
    /\ everCompleted = {}
    /\ removed = {}

Init ==
    /\ InitStore
    /\ calls = <<>>
    /\ csv = NoCsv

\* the collection db becomes the stored one
Store(db) ==
    /\ patients' = db
    /\ writes' = IF db # patients THEN writes + 1 ELSE writes
    /\ everCompleted' =
          (everCompleted \cup {j \in DOMAIN db : db[j].status = "completed"})
    /\ removed' = removed \cup (DOMAIN patients \ DOMAIN db)

\* the outcome r of a handler becomes the next state
Respond(r) ==
    /\ Store(r.db)
    /\ UNCHANGED <<now, calls, csv>>

Create(bodies) ==
    /\ writes < MaxWrites
    /\ nextId <= MaxPatients
    /\ \E body \in bodies :
        LET r == postPatients(patients, body, ObjectId(patients, nextId), now)
        IN  /\ Respond(r)
            /\ nextId' = IF r.code = 201 THEN nextId + 1 ELSE nextId

Update(payloads) ==
    /\ writes < MaxWrites
    /\ \E id \in Ids, updateData \in payloads :
        /\ Respond(putPatients(patients, id, updateData, now))
        /\ UNCHANGED nextId

Delete ==
    /\ writes < MaxWrites
    /\ \E id \in Ids, permanent \in BOOLEAN :
        /\ Respond(deletePatient(patients, id, permanent, now))
        /\ UNCHANGED nextId

LegacyDelete ==
    /\ writes < MaxWrites
    /\ \E id \in Ids :
        /\ Respond(postDelete(patients, id))
        /\ UNCHANGED nextId

Restore ==
    /\ writes < MaxWrites
    /\ \E id \in Ids :
        /\ Respond(postRestore(patients, id, now))
        /\ UNCHANGED nextId

Bulk(bodies) ==
    /\ writes < MaxWrites
    /\ \E body \in bodies :
        \E order \in BulkOrders(BulkMatch(patients, body.operation,
                                          BulkTargetIds(patients, body)), body) :
            /\ Respond(postBulk(patients, body, order, now))
            /\ UNCHANGED nextId

\* the search texts of a listing or a search
SearchAl == <<"a", "l">>
SearchTel == <<"1", "2", "-", "3", "4">>
SearchNone == <<"z", "z">>

\* query parameters of GET /api/patients
ListQueries ==
    {[includeDeleted |-> "false"],
     [status |-> "completed", familyGroup |-> "ESDA"],
     [service |-> "Eye consultation", search |-> SearchAl],
     [includeDeleted |-> "true", page |-> 2, limit |-> 1]}

\* request bodies of POST /api/search
SearchBodies ==
    {[query |-> SearchTel], [query |-> <<" ">>],
     [query |-> SearchAl, limit |-> 1,
      filters |-> [service |-> "Eye consultation"]]}

\* query parameters of GET /api/export
ExportQueries ==
    {[includeDeleted |-> "false"],
     [includeDeleted |-> "true", service |-> "Eye consultation"]}

\* the reading requests leave the state as it is
List ==
    /\ \E q \in ListQueries :
          \E order \in NewestFirst(patients, Find(patients, ListQuery(q))) :
              listPatients(patients, q, order).code = 200
    /\ UNCHANGED vars

Search ==
    /\ \E body \in SearchBodies :
          \E order \in NewestFirst(patients,
                    IF Has(body, "query")
                    THEN Find(patients, SearchQuery(body)) ELSE {}) :
              postSearch(patients, body, order).code \in {200, 400}
    /\ UNCHANGED vars

Export ==
    /\ \E q \in ExportQueries :
          \E order \in NewestFirst(patients, Find(patients, ExportQuery(q))) :
              getExport(patients, q, order).code = 200
    /\ UNCHANGED vars

\* the period parameter of GET /api/stats, in days
Periods == {30}

Stats ==
    /\ \E period \in Periods : getStats(patients, now, period).code = 200
    /\ UNCHANGED vars

Health ==
    /\ getHealth(patients, now).code = 200
    /\ UNCHANGED vars

\* query parameters of GET /api/patients/deleted
DeletedQueries == {[page |-> 1], [page |-> 1, limit |-> 1], [page |-> 2, limit |-> 1]}

ListDeleted ==
    /\ \E q \in DeletedQueries :
          \E order \in LastDeletedFirst(patients, Find(patients, [isDeleted |-> TRUE])) :
              requestDeleted(patients, q, order).code \in {200, 400, 404}
    /\ UNCHANGED vars

Get ==
    /\ \E id \in Ids, includeHistory \in BOOLEAN :
          getPatient(patients, id, includeHistory).code \in {200, 404}
    /\ UNCHANGED vars

History ==
    /\ \E id \in Ids : getHistory(patients, id).code \in {200, 404}
    /\ UNCHANGED vars

\* time passes between requests
Tick ==
    /\ now < MaxClock
    /\ now' = now + 1
    /\ UNCHANGED <<patients, nextId, writes, everCompleted, removed, calls, csv>>

Next ==
    \/ Create(CreateBodies)
    \/ Update(UpdatePayloads)
    \/ Delete
    \/ LegacyDelete
    \/ Restore
    \/ Bulk(BulkBodies("delete", BulkUpdatePayloads))
    \/ Bulk(BulkBodies("permanentDelete", BulkUpdatePayloads))
    \/ Bulk(BulkBodies("restore", BulkUpdatePayloads))
    \/ Bulk(BulkBodies("update", BulkUpdatePayloads))
    \/ Bulk(BulkBodies("complete", BulkUpdatePayloads))
    \/ Get
    \/ History
    \/ Tick

Spec == Init /\ [][Next]_vars

\* ------------------------------------------------ the phone and delete core
\* the same handlers under the requests that touch tel, isDeleted and status
CoreCreateBodies ==
    {OnForm([tel |-> tl, services |-> <<"Gynaecology">>]) : tl \in TelInputs}

CoreUpdatePayloads ==
    {[tel |-> TelA], [tel |-> TelASpaces], [status |-> "completed"],
     [status |-> "deleted"], [isDeleted |-> TRUE]}

CoreBulkUpdatePayloads == {[tel |-> TelADash], [status |-> "deleted"]}

NextCore ==
    \/ Create(CoreCreateBodies)
    \/ Update(CoreUpdatePayloads)
    \/ Delete
    \/ LegacyDelete
    \/ Restore
    \/ Bulk(BulkBodies("delete", CoreBulkUpdatePayloads))
    \/ Bulk(BulkBodies("permanentDelete", CoreBulkUpdatePayloads))
    \/ Bulk(BulkBodies("restore", CoreBulkUpdatePayloads))
    \/ Bulk(BulkBodies("update", CoreBulkUpdatePayloads))
    \/ Bulk(BulkBodies("complete", CoreBulkUpdatePayloads))
    \/ Get
    \/ History
    \/ Tick

SpecCore == Init /\ [][NextCore]_vars

\* ------------------------------------------------------------ the CSV export
\* the characters of the values of an exported row
CsvChars == {"a", " ", Comma, Quote, Newline}

\* the strings over CsvChars of length up to n
FieldsUpTo(n) == UNION {[1..k -> CsvChars] : k \in 0..n}

\* the rows given to convertToCSV: a value for each column
CsvRows == {<<f, g>> : f \in FieldsUpTo(MaxFieldLen), g \in FieldsUpTo(MaxTailLen)}

InitCsv ==
    /\ InitStore
    /\ calls = <<>>
    /\ csv \in {[row |-> r, text |-> <<>>, done |-> FALSE] : r \in CsvRows}

\* the export of the row
ConvertToCsv ==
    /\ ~csv.done
    /\ csv' = [csv EXCEPT !.text = convertToCSV(<<csv.row>>), !.done = TRUE]
    /\ UNCHANGED <<patients, nextId, now, writes, everCompleted, removed, calls>>

NextCsv == ConvertToCsv

SpecCsv == InitCsv /\ [][NextCsv]_vars

\* ------------------------------------------------------ the reading requests
\* the handlers that read, over records that differ in what the filters and
\* the statistics look at
TelB == <<"8", "7", "6", "5", "4", "3", "2", "1">>

ReadCreateBodies ==
    {OnForm([tel |-> TelA, services |-> <<"Gynaecology">>]),
     OnForm([tel |-> TelB, services |-> <<"Eye consultation", "Gynaecology">>]),
     OnForm([tel |-> TelB, services |-> <<"Gynaecology", "Gynaecology">>]),
     OnForm([tel |-> TelB, services |-> <<"Gynaecology">>, name |-> NameSpaced,
             familyGroup |-> "OTHERS"])}

ReadUpdatePayloads == {[status |-> "completed"], [familyGroup |-> "ESDA"]}

NextRead ==
    \/ Create(ReadCreateBodies)
    \/ Update(ReadUpdatePayloads)
    \/ Delete
    \/ Restore
    \/ List
    \/ Search
    \/ Export
    \/ Stats
    \/ Health
    \/ ListDeleted
    \/ Tick

SpecRead == Init /\ [][NextRead]_vars

\* -------------------------------------------------- interleaved requests
\* a handler awaits each of its store accesses, and the accesses of the
\* requests under way interleave: a call is a request, pc the store access it
\* makes next, code its response once it is done
RaceCreateBodies ==
    {OnForm([tel |-> TelA, services |-> <<"Gynaecology">>]),
     OnForm([tel |-> TelB, services |-> <<"Gynaecology">>])}

RaceUpdatePayloads == {[status |-> "completed"], [tel |-> TelB]}

\* call c goes on to pc
Goto(c, pc) == calls' = [calls EXCEPT ![c].pc = pc]

\* call c is answered with code
Done(c, code) == calls' = [calls EXCEPT ![c].pc = "done", ![c].code = code]

AtPc(c, op, pc) == calls[c].op = op /\ calls[c].pc = pc

\* document.save() of a document loaded earlier: the paths the handler and
\* the hook modified on it are written to the stored document
saveLoaded(db, id, loaded, changed, t) ==
    LET saved == Save([db EXCEPT ![id] = loaded], id, changed, t)
        modified == {k \in DOMAIN loaded : saved.db[id][k] # loaded[k]}
    IN  IF saved.err # "none" THEN [err |-> saved.err, db |-> db]
        ELSE [err |-> "none",
              db |-> [db EXCEPT ![id] =
                         [k \in DOMAIN @ |->
                             IF k \in modified THEN saved.db[id][k] ELSE @[k]]]]

\* POST /api/patients: the body is checked, then Patient.findOne looks for an
\* active record with the tel
CreateCheck ==
    /\ Len(calls) < MaxCalls
    /\ \E body \in RaceCreateBodies :
        LET prepared == postPatientsPrepare(body)
            code == IF prepared.code # 0 THEN prepared.code
                    ELSE IF FindActiveByTel(patients, prepared.patientData.tel, nextId)
                    THEN 409 ELSE 0
        IN  calls' = Append(calls,
                        [op |-> "create", pc |-> IF code = 0 THEN "save" ELSE "done",
                         code |-> code, id |-> 0, held |-> FALSE,
                         patientData |-> prepared.patientData])
    /\ UNCHANGED <<patients, nextId, now, writes, everCompleted, removed, csv>>

\* POST /api/patients: new Patient(patientData).save(); held records whether
\* a stored document had the tel when the insert was made
CreateSave ==
    /\ writes < MaxWrites
    /\ nextId <= MaxPatients
    /\ \E c \in DOMAIN calls :
        /\ AtPc(c, "create", "save")
        /\ LET patientData == calls[c].patientData
               newId == ObjectId(patients, nextId)
               held == \E j \in DOMAIN patients : patients[j].tel = patientData.tel
               saved == Save(patients, newId, NewPatient(patientData, now), now)
           IN  IF saved.err # "none"
               THEN /\ calls' = [calls EXCEPT ![c].pc = "done", ![c].held = held,
                                              ![c].code = handleError(saved.err)]
                    /\ UNCHANGED <<patients, nextId, writes, everCompleted, removed>>
               ELSE /\ calls' = [calls EXCEPT ![c].pc = "history", ![c].held = held,
                                              ![c].id = newId]
                    /\ Store(saved.db)
                    /\ nextId' = nextId + 1
    /\ UNCHANGED <<now, csv>>

\* POST /api/patients: addModificationHistory(patient._id, 'created', ...)
CreateHistory ==
    /\ \E c \in DOMAIN calls :
        /\ AtPc(c, "create", "history")
        /\ Store(addModificationHistory(patients, calls[c].id, "created",
                                        DOMAIN calls[c].patientData, now))
        /\ Done(c, 201)
    /\ UNCHANGED <<nextId, now, csv>>

\* PUT /api/patients: Patient.findById, the checks on the record it returns
\* and the sanitizing of the payload
UpdateRead ==
    /\ Len(calls) < MaxCalls
    /\ \E id \in Ids, updateData \in RaceUpdatePayloads :
        LET found == id \in DOMAIN patients
            prepared == putPatientsPrepare(patients[id], updateData, now)
            code == IF ~found THEN 404
                    ELSE IF UpdateTargetDeleted(patients[id]) THEN 410
                    ELSE prepared.code
        IN  calls' = Append(calls,
                [op |-> "update", code |-> code, id |-> id,
                 pc |-> IF code # 0 THEN "done"
                        ELSE IF ChecksTel(patients[id], prepared.sanitizedData)
                        THEN "checkTel" ELSE "write",
                 currentPatient |-> IF found THEN patients[id] ELSE <<>>,
                 sanitizedData |-> IF code = 0 THEN prepared.sanitizedData ELSE <<>>])
    /\ UNCHANGED <<patients, nextId, now, writes, everCompleted, removed, csv>>

\* PUT /api/patients: Patient.findOne looks for another active record with
\* the tel of the payload
UpdateCheckTel ==
    /\ \E c \in DOMAIN calls :
        /\ AtPc(c, "update", "checkTel")
        /\ IF FindActiveByTel(patients, calls[c].sanitizedData.tel, calls[c].id)
           THEN Done(c, 409) ELSE Goto(c, "write")
    /\ UNCHANGED <<patients, nextId, now, writes, everCompleted, removed, csv>>

\* PUT /api/patients: Patient.findByIdAndUpdate(id, sanitizedData, ...)
UpdateWrite ==
    /\ writes < MaxWrites
    /\ \E c \in DOMAIN calls :
        /\ AtPc(c, "update", "write")
        /\ LET updated == findByIdAndUpdate(patients, calls[c].id,
                                            calls[c].sanitizedData, now, TRUE)
           IN  IF updated.err # "none"
               THEN /\ Done(c, handleError(updated.err))
                    /\ UNCHANGED <<patients, writes, everCompleted, removed>>
               ELSE /\ Goto(c, "history")
                    /\ Store(updated.db)
    /\ UNCHANGED <<nextId, now, csv>>

\* PUT /api/patients: addModificationHistory(patient._id, action, changes)
UpdateHistory ==
    /\ \E c \in DOMAIN calls :
        /\ AtPc(c, "update", "history")
        /\ Store(addModificationHistory(patients, calls[c].id,
                    UpdateAction(calls[c].sanitizedData),
                    ChangedKeys(calls[c].currentPatient, calls[c].sanitizedData), now))
        /\ Done(c, 200)
    /\ UNCHANGED <<nextId, now, csv>>

\* DELETE /api/patients/:id: Patient.findById
DeleteLoad ==
    /\ Len(calls) < MaxCalls
    /\ \E id \in Ids :
        LET found == id \in DOMAIN patients
        IN  calls' = Append(calls,
                [op |-> "delete", id |-> id,
                 code |-> IF found THEN 0 ELSE 404,
                 pc |-> IF found THEN "save" ELSE "done",
                 patient |-> IF found THEN patients[id] ELSE <<>>])
    /\ UNCHANGED <<patients, nextId, now, writes, everCompleted, removed, csv>>

\* DELETE /api/patients/:id: patient.softDelete() on the document it loaded
DeleteSave ==
    /\ writes < MaxWrites
    /\ \E c \in DOMAIN calls :
        /\ AtPc(c, "delete", "save")
        /\ LET loaded == calls[c].patient
               saved == saveLoaded(patients, calls[c].id, loaded,
                                   [loaded EXCEPT !.isDeleted = TRUE,
                                                  !.deletedAt = <<now>>,
                                                  !.status = "deleted"], now)
           IN  IF saved.err # "none"
               THEN /\ Done(c, handleError(saved.err))
                    /\ UNCHANGED <<patients, writes, everCompleted, removed>>
               ELSE /\ Goto(c, "history")
                    /\ Store(saved.db)
    /\ UNCHANGED <<nextId, now, csv>>

\* DELETE /api/patients/:id: addModificationHistory(id, 'deleted', ...)
DeleteHistory ==
    /\ \E c \in DOMAIN calls :
        /\ AtPc(c, "delete", "history")
        /\ Store(addModificationHistory(patients, calls[c].id, "deleted",
                                        {"deletedAt"}, now))
        /\ Done(c, 200)
    /\ UNCHANGED <<nextId, now, csv>>

NextRace ==
    \/ CreateCheck
    \/ CreateSave
    \/ CreateHistory
    \/ UpdateRead
    \/ UpdateCheckTel
    \/ UpdateWrite
    \/ UpdateHistory
    \/ DeleteLoad
    \/ DeleteSave
    \/ DeleteHistory
    \/ Tick

SpecRace == Init /\ [][NextRace]_vars

\* ------------------------------------------------------------------ claims
Active(db) == {j \in DOMAIN db : ~db[j].isDeleted}

IsPrefix(h, g) == Len(h) <= Len(g) /\ SubSeq(g, 1, Len(h)) = h

HasAction(doc, action) ==
    \E i \in 1..Len(doc.modificationHistory) :
        doc.modificationHistory[i].action = action

WasRestored(doc) ==
    \E i \in 1..Len(doc.modificationHistory) :
        doc.modificationHistory[i].changes = {"restored"}

\* C1: in every reachable state no two records with isDeleted = false hold the
\* same tel.
C1_ActiveTelUnique ==
    \A i, j \in Active(patients) : i # j => patients[i].tel # patients[j].tel

\* two records are active, one of them after a soft delete and a restore
C1_Witness ==
    \E i, j \in Active(patients) : i # j /\ WasRestored(patients[i])

\* C2: a create whose tel has the digit sequence of the tel of some record that
\* is not deleted is answered 409, whatever the punctuation of the two strings.
C2_SameDigitsConflict ==
    nextId <= MaxPatients =>
        \A body \in CoreCreateBodies :
            (/\ TelValid(body.tel)
             /\ \E j \in Active(patients) :
                    StripNonDigits(patients[j].tel) = StripNonDigits(body.tel))
            => postPatients(patients, body, nextId, now).code = 409

\* C3: every stored record has a non-empty services list.
C3_ServicesNonEmpty ==
    \A j \in DOMAIN patients : Len(patients[j].services) > 0

\* C4: a record has isDeleted = true exactly when its status is 'deleted'.
C4_DeletedFlagIffStatus ==
    \A j \in DOMAIN patients :
        patients[j].isDeleted <=> patients[j].status = "deleted"

\* C5: every step leaves the modificationHistory of a record that exists before
\* and after it a prefix of the new one.
C5_HistoryAppendOnly ==
    [][\A j \in DOMAIN patients \cap DOMAIN patients' :
          IsPrefix(patients[j].modificationHistory,
                   patients'[j].modificationHistory)]_vars

\* C6: a record's completionDate and completionTime are non-empty exactly when
\* its status has been 'completed' at some point.
C6_StampIffEverCompleted ==
    \A j \in DOMAIN patients :
        (patients[j].completionDate # "" /\ patients[j].completionTime # "")
            <=> j \in everCompleted

\* C7: once a record that has been completed carries its completion date and
\* time, no step changes them.
C7_StampNeverChanges ==
    [][\A j \in DOMAIN patients \cap DOMAIN patients' :
          (/\ j \in everCompleted
           /\ patients[j].completionDate # ""
           /\ patients[j].completionTime # "")
          => /\ patients'[j].completionDate = patients[j].completionDate
             /\ patients'[j].completionTime = patients[j].completionTime]_vars

\* C8: an update addressed to a record whose isDeleted is true is answered 410
\* and leaves the collection, every field of the record included, as it was.
C8_UpdateOfDeletedRejected ==
    \A id \in DOMAIN patients :
        patients[id].isDeleted =>
            \A updateData \in UpdatePayloads :
                putPatients(patients, id, updateData, now) = Response(410, patients)

\* a soft-deleted record, stamped before the clock moved, meets an update
C8_Witness ==
    \E id \in DOMAIN patients :
        /\ patients[id].isDeleted
        /\ HasAction(patients[id], "deleted")
        /\ patients[id].lastModified < now
        /\ putPatients(patients, id, [status |-> "completed"], now).code = 410

\* the step is a restore of record j, single or bulk
IsRestoreStep(j) ==
    \/ patients' = postRestore(patients, j, now).db
    \/ \E body \in BulkBodies("restore", {}) :
          /\ j \in BulkTargetIds(patients, body)
          /\ \E order \in BulkOrders(BulkMatch(patients, "restore",
                                               BulkTargetIds(patients, body)), body) :
                patients' = postBulk(patients, body, order, now).db

\* C9: every step that moves a record's status away from 'deleted' is a restore
\* and leaves the status 'registered'.
C9_LeavesDeletedOnlyByRestore ==
    [][\A j \in DOMAIN patients \cap DOMAIN patients' :
          (patients[j].status = "deleted" /\ patients'[j].status # "deleted")
          => (patients'[j].status = "registered" /\ IsRestoreStep(j))]_vars

\* C10: a restore of a record that is not soft-deleted is answered with an
\* error and changes nothing; a restore is answered 200 only for a record whose
\* isDeleted is true.
C10_RestoreOnlyOfDeleted ==
    \A id \in Ids :
        /\ (id \in DOMAIN patients /\ ~patients[id].isDeleted)
              => postRestore(patients, id, now) = Response(400, patients)
        /\ postRestore(patients, id, now).code = 200
              => (id \in DOMAIN patients /\ patients[id].isDeleted)

\* a record that was deleted and restored meets a second restore
C10_Witness ==
    \E id \in DOMAIN patients :
        /\ ~patients[id].isDeleted
        /\ WasRestored(patients[id])
        /\ postRestore(patients, id, now).code = 400

\* the fields of a record that hold what was registered about the patient
DataFields ==
    {"name", "age", "sex", "occupation", "tel", "familyGroup", "service",
     "services", "completionDate", "completionTime"}

HistoryActions(h) == [i \in 1..Len(h) |-> h[i].action]

\* C11: for every record that is not deleted, a soft delete followed by a
\* restore leaves status 'registered' and isDeleted false, every other field
\* of the record as it was before the delete, and the history it had followed
\* by one 'deleted' entry and one 'updated' entry.
C11_DeleteRestoreRoundTrip ==
    \A id \in DOMAIN patients :
        LET d == deletePatient(patients, id, FALSE, now)
            r == postRestore(d.db, id, now)
        IN  (~patients[id].isDeleted /\ d.code = 200) =>
                /\ r.code = 200
                /\ r.db[id].status = "registered"
                /\ ~r.db[id].isDeleted
                /\ \A k \in DataFields : r.db[id][k] = patients[id][k]
                /\ IsPrefix(patients[id].modificationHistory,
                            r.db[id].modificationHistory)
                /\ HistoryActions(r.db[id].modificationHistory) =
                      HistoryActions(patients[id].modificationHistory)
                          \o <<"deleted", "updated">>

\* C12: an id whose record was permanently deleted resolves to no record in
\* any later state, and get-by-id, update, restore and history for it are
\* answered 404.
C12_RemovedStaysNotFound ==
    \A id \in removed :
        /\ id \notin DOMAIN patients
        /\ \A includeHistory \in BOOLEAN :
              getPatient(patients, id, includeHistory).code = 404
        /\ \A updateData \in UpdatePayloads :
              putPatients(patients, id, updateData, now) = Response(404, patients)
        /\ postRestore(patients, id, now) = Response(404, patients)
        /\ getHistory(patients, id).code = 404

\* a record was removed for good and a record was created after it
C12_Witness ==
    \E id \in removed : \E j \in DOMAIN patients : j > id

\* no stored record, deleted or not, holds a tel with the digits of tel
TelFree(tel) ==
    \A j \in DOMAIN patients :
        StripNonDigits(patients[j].tel) # StripNonDigits(tel)

EyeConBodies ==
    {OnForm([tel |-> TelA, service |-> "Eye con"]),
     OnForm([tel |-> TelA, services |-> <<"Eye con", "Gynaecology">>])}

EyeConPayloads ==
    {[service |-> "Eye con"], [services |-> <<"Eye con", "Gynaecology">>]}

\* the services the normalization rules give for a payload: the services list
\* without its blank entries if that is not empty, else the non-blank service
\* alone, else nothing; the legacy name mapped to its successor
NormalizedServices(payload) ==
    LET listed == IF Has(payload, "services")
                  THEN SelectSeq(payload.services, NonBlank) ELSE <<>>
    IN  IF listed # <<>> THEN MapAlias(listed)
        ELSE IF Has(payload, "service") /\ NonBlank(payload.service)
        THEN <<EyeConAlias(TrimStr(payload.service))>>
        ELSE <<>>

\* C13: a create or an update whose payload names the legacy 'Eye con', in
\* service or in services, is accepted and stores the list with
\* 'Eye consultation' in its place.
C13_EyeConAccepted ==
    /\ (nextId <= MaxPatients /\ TelFree(TelA)) =>
          \A body \in EyeConBodies :
              LET r == postPatients(patients, body, nextId, now)
              IN  /\ r.code = 201
                  /\ r.db[nextId].services = NormalizedServices(body)
    /\ \A id \in Active(patients) : \A updateData \in EyeConPayloads :
          LET r == putPatients(patients, id, updateData, now)
          IN  /\ r.code = 200
              /\ r.db[id].services = NormalizedServices(updateData)

\* payloads of the service rules that do not name the legacy 'Eye con'
ServiceRulePayloads ==
    {[services |-> ss] : ss \in {<<>>, <<"  ">>, <<"Gynaecology">>}}
    \cup {[service |-> sv] : sv \in {"Gynaecology", "  "}}
    \cup {[services |-> ss, service |-> sv] :
            ss \in {<<>>, <<"  ">>, <<"Dental consultation">>},
            sv \in {"Gynaecology", "  "}}

\* C14: a create stores the services the rule order gives (the list without
\* blanks if not empty, else the non-blank service alone) and fails when the
\* rules give none; an update whose payload has services or service does the
\* same. A list of blanks with a valid service stores that service alone.
C14_ServiceRuleOrder ==
    /\ (nextId <= MaxPatients /\ TelFree(TelA)) =>
          \A p \in ServiceRulePayloads :
              LET r == postPatients(patients, OnForm(Put(p, "tel", TelA)), nextId, now)
              IN  IF NormalizedServices(p) = <<>> THEN r.code = 400
                  ELSE /\ r.code = 201
                       /\ r.db[nextId].services = NormalizedServices(p)
    /\ \A id \in Active(patients) : \A p \in ServiceRulePayloads :
          LET r == putPatients(patients, id, p, now)
          IN  NormalizedServices(p) # <<>> =>
                  /\ r.code = 200
                  /\ r.db[id].services = NormalizedServices(p)

\* a payload that the field rules of the record accept
ValidPayload(body) ==
    /\ DOMAIN PersonFields \cup {"tel"} \subseteq DOMAIN body
    /\ NameValid(TrimSeq(CollapseSpaces(body.name)))
    /\ AgeValid(body.age)
    /\ SexValid(body.sex)
    /\ FamilyGroupValid(body.familyGroup)
    /\ TelValid(body.tel)
    /\ ServicesValid(NormalizedServices(body))

\* C15: for every valid payload whose tel no record holds, create is answered
\* 201 and get-by-id of the new id returns the payload's name, age, sex,
\* occupation, tel and familyGroup (name and tel trimmed and with their
\* whitespace collapsed), its normalized services, not empty, and status
\* 'registered'.
C15_CreateGetRoundTrip ==
    nextId <= MaxPatients =>
        \A body \in CreateBodies \cup EyeConBodies :
            (ValidPayload(body) /\ TelFree(body.tel)) =>
                LET r == postPatients(patients, body, nextId, now)
                    g == getPatient(r.db, nextId, FALSE)
                IN  /\ r.code = 201
                    /\ g.code = 200
                    /\ g.data.name = TrimSeq(CollapseSpaces(body.name))
                    /\ g.data.age = body.age
                    /\ g.data.sex = body.sex
                    /\ g.data.occupation =
                          (IF Has(body, "occupation") THEN TrimStr(body.occupation) ELSE "")
                    /\ g.data.tel = TrimSeq(CollapseSpaces(body.tel))
                    /\ g.data.familyGroup = body.familyGroup
                    /\ g.data.services = NormalizedServices(body)
                    /\ g.data.services # <<>>
                    /\ g.data.status = "registered"

\* C16: with the other fields valid and the tel free, create accepts an age
\* exactly when it is an integer from 0 to 150.
C16_AgeRange ==
    (nextId <= MaxPatients /\ TelFree(TelA)) =>
        \A a \in AgeInputs \cup {Num(30), Num(1)} :
            LET body == OnForm([tel |-> TelA, services |-> <<"Gynaecology">>, age |-> a])
            IN  postPatients(patients, body, nextId, now).code = 201
                    <=> (IsInteger(a) /\ a.num >= 0 /\ a.num <= 150 * a.den)

\* C17: a create that is not answered 201 and an update that is not answered
\* 200 leave the collection as it was: the same records with the same fields.
C17_FailureWritesNothing ==
    /\ \A body \in CreateBodies :
          LET r == postPatients(patients, body, nextId, now)
          IN  r.code # 201 => (r.code \in {400, 409} /\ r.db = patients)
    /\ \A id \in Ids : \A updateData \in UpdatePayloads :
          LET r == putPatients(patients, id, updateData, now)
          IN  r.code # 200 => (r.code \in {400, 404, 409, 410} /\ r.db = patients)

\* an update is refused by the store, not by the handler: the tel it sets is
\* held by a soft-deleted record; a create with that tel is refused too
C17_Witness ==
    \E id \in Active(patients) :
        /\ ~FindActiveByTel(patients, TelA, id)
        /\ putPatients(patients, id, [tel |-> TelA], now).code = 409
        /\ postPatients(patients, OnForm([tel |-> TelA, services |-> <<"Gynaecology">>]),
                        nextId, now).code = 409

\* update payloads for the frame of an update
FramePayloads == UpdatePayloads \cup {[service |-> "Eye consultation"]}

\* the update moves the status of the record into 'completed'
MovesIntoCompleted(doc, updateData) ==
    /\ Has(updateData, "status")
    /\ TrimStr(updateData.status) = "completed"
    /\ doc.status # "completed"

\* the fields a successful update may change, as stated
StatedFrame(doc, updateData) ==
    DOMAIN updateData \cup {"lastModified", "modificationHistory"}
    \cup (IF MovesIntoCompleted(doc, updateData)
          THEN {"completionDate", "completionTime"} ELSE {})

\* the update of record id with updateData, when it succeeds, changes no field
\* of the record outside frame and no other record
KeepsOutside(id, updateData, frame) ==
    LET r == putPatients(patients, id, updateData, now)
    IN  r.code = 200 =>
            /\ DOMAIN r.db = DOMAIN patients
            /\ \A j \in DOMAIN patients \ {id} : r.db[j] = patients[j]
            /\ \A k \in DOMAIN patients[id] \ frame : r.db[id][k] = patients[id][k]

\* C18 as stated: a successful update changes only the fields of its payload,
\* lastModified, the history and, on the move into completed, the completion
\* date and time.
C18_UpdateFrameAsStated ==
    \A id \in DOMAIN patients : \A updateData \in FramePayloads :
        KeepsOutside(id, updateData, StatedFrame(patients[id], updateData))

\* C18: a successful update changes only the fields of its payload,
\* lastModified, the history, the completion date and time on the move into
\* completed, and services together with the legacy service when the payload
\* has either of the two; every other field of the record and every other
\* record stay as they were.
C18_UpdateFrame ==
    \A id \in DOMAIN patients : \A updateData \in FramePayloads :
        KeepsOutside(id, updateData,
            StatedFrame(patients[id], updateData)
            \cup (IF Has(updateData, "services") \/ Has(updateData, "service")
                  THEN {"services", "service"} ELSE {}))

\* a completed record beside another record takes an update of its service
C18_Witness ==
    \E id, j \in DOMAIN patients :
        /\ id # j
        /\ HasAction(patients[id], "completed")
        /\ patients[id].completionDate # ""
        /\ putPatients(patients, id, [service |-> "Eye consultation"], now).code = 200
        /\ putPatients(patients, id, [status |-> "registered"], now).code = 200

\* C19: the entry a successful update appends has action 'completed' exactly
\* when the update moves the status from another value to 'completed', and
\* 'updated' otherwise.
C19_HistoryAction ==
    \A id \in DOMAIN patients : \A updateData \in UpdatePayloads :
        LET r == putPatients(patients, id, updateData, now)
            h == r.db[id].modificationHistory
        IN  r.code = 200 =>
                /\ h # <<>>
                /\ h[Len(h)].action =
                      (IF patients[id].status # "completed"
                          /\ r.db[id].status = "completed"
                       THEN "completed" ELSE "updated")

\* C20: every step that creates a record leaves it with the one entry
\* 'created', and every step that changes a record that stays stored appends
\* an entry to its history.
C20_MutationAppendsHistory ==
    [][\A j \in DOMAIN patients' :
          IF j \notin DOMAIN patients
          THEN HistoryActions(patients'[j].modificationHistory) = <<"created">>
          ELSE patients'[j] # patients[j] =>
                  LET h == patients'[j].modificationHistory
                  IN  /\ h # patients[j].modificationHistory
                      /\ h # <<>>
                      /\ h[Len(h)].timestamp = now]_vars

\* C21: a bulk complete changes exactly its target records that are
\* 'registered' and not soft-deleted, which become 'completed'; every other
\* record, targeted or not, stays as it was, and the affected count is the
\* number of records changed.
C21_BulkCompleteOnlyRegistered ==
    \A body \in BulkBodies("complete", {}) :
        LET targetIds == BulkTargetIds(patients, body)
            matching == BulkMatch(patients, "complete", targetIds)
            due == {j \in targetIds \cap DOMAIN patients :
                       patients[j].status = "registered" /\ ~patients[j].isDeleted}
        IN  targetIds # {} =>
                \A order \in BulkOrders(matching, body) :
                    LET r == postBulk(patients, body, order, now)
                    IN  /\ r.code = 200
                        /\ DOMAIN r.db = DOMAIN patients
                        /\ \A j \in DOMAIN patients \ due : r.db[j] = patients[j]
                        /\ \A j \in due : /\ r.db[j] # patients[j]
                                           /\ r.db[j].status = "completed"
                        /\ affectedCount(patients, r.db) = Cardinality(due)

\* a record completed by a bulk complete (stamped, with no 'completed' entry)
\* beside a registered one: a bulk complete of both changes one of them
C21_Witness ==
    \E i, j \in DOMAIN patients :
        /\ i # j
        /\ patients[i].status = "registered" /\ ~patients[i].isDeleted
        /\ patients[j].status = "completed" /\ patients[j].completionDate # ""
        /\ ~HasAction(patients[j], "completed")
        /\ affectedCount(patients,
              postBulk(patients, [operation |-> "complete", patientIds |-> {i, j}],
                       <<i>>, now).db) = 1

\* payloads for the comparison of the bulk update with the single update
SharedUpdatePayloads ==
    BulkUpdatePayloads
    \cup {[status |-> "archived"], [age |-> Num(151)], [age |-> Num(40)],
          [services |-> <<"Eye consultation", "Gynaecology">>],
          [familyGroup |-> "MASUDA"]}

\* C22: for every payload, a bulk update of one record that is not deleted
\* leaves the record with the fields the single update of it leaves (the
\* history apart), and changes nothing when the single update rejects the
\* payload.
C22_BulkUpdateAsSingleUpdate ==
    \A id \in Active(patients) : \A updateData \in SharedUpdatePayloads :
        LET single == putPatients(patients, id, updateData, now)
            bulk == postBulk(patients,
                             [operation |-> "update", patientIds |-> {id},
                              updateData |-> updateData], <<id>>, now)
        IN  IF single.code = 200
            THEN \A k \in DOMAIN patients[id] \ {"modificationHistory"} :
                    bulk.db[id][k] = single.db[id][k]
            ELSE bulk.db = patients

\* each filter of a listing on its own, as the listing states it
SatisfiesFilters(doc, q) ==
    /\ Param(q, "includeDeleted", "false") # "true" => ~doc.isDeleted
    /\ Has(q, "status") /\ q.status # "all" => doc.status = q.status
    /\ Has(q, "service") => ClauseMatches(doc, ServiceClause(q.service))
    /\ Has(q, "services") /\ ~Has(q, "service")
          => ClauseMatches(doc, ServiceClause(q.services))
    /\ Has(q, "familyGroup") /\ q.familyGroup # "all"
          => doc.familyGroup = q.familyGroup
    /\ Has(q, "search") /\ TrimSeq(q.search) # <<>>
          => ClauseMatches(doc, SearchClause(q.search))
    /\ Has(q, "dateFrom") => doc.createdAt >= StartOfDay(q.dateFrom)
    /\ Has(q, "dateTo") => doc.createdAt <= EndOfDay(q.dateTo)

ReturnedIds(data) == {data[i]["_id"] : i \in 1..Len(data)}

\* further queries of a listing: each filter alone and in pairs
FilterQueries ==
    ListQueries
    \cup {[includeDeleted |-> "true"], [service |-> "Eye consultation"],
          [services |-> "Gynaecology"], [search |-> SearchAl],
          [search |-> SearchTel], [search |-> SearchNone],
          [dateFrom |-> 0, dateTo |-> 0], [dateFrom |-> 1],
          [status |-> "all", familyGroup |-> "all", page |-> 1, limit |-> 1],
          [service |-> "Gynaecology", status |-> "registered"]}

\* further bodies of a search and queries of an export
FilterBodies ==
    SearchBodies
    \cup {[query |-> SearchAl], [query |-> SearchNone],
          [query |-> SearchAl,
           filters |-> [status |-> "registered", familyGroup |-> "ESDA", dateTo |-> 0]]}
FilterExports ==
    ExportQueries
    \cup {[status |-> "completed"], [service |-> "Eye consultation"],
          [familyGroup |-> "ESDA", dateFrom |-> 0]}

\* C23: the listing returns exactly the records that satisfy every supplied
\* filter at once: the count it reports is the number of those records and,
\* when no page is asked for, the records it returns are those records
C23_ListAppliesEveryFilter ==
    \A q \in FilterQueries :
        \A order \in NewestFirst(patients, Find(patients, ListQuery(q))) :
            LET r == listPatients(patients, q, order)
                expected == {j \in DOMAIN patients : SatisfiesFilters(patients[j], q)}
            IN  /\ r.totalPatients = Cardinality(expected)
                /\ ~Has(q, "page") => ReturnedIds(r.data) = expected

\* the documents of db that are not soft-deleted
Live(db) == [j \in Active(db) |-> db[j]]

\* the queries of a listing or an export without the includeDeleted override
WithoutOverride(queries) ==
    {q \in queries : Param(q, "includeDeleted", "false") # "true"}

NoneDeleted(data) == \A i \in 1..Len(data) : ~data[i].isDeleted

\* C24: without the includeDeleted override the listing, the search and the
\* export return no soft-deleted record, and every count of the statistics and
\* of the health check other than the deleted count is what it would be
\* without the soft-deleted records, the total count included
C24_DeletedExcludedByDefault ==
    /\ \A q \in WithoutOverride(FilterQueries) :
          \A order \in NewestFirst(patients, Find(patients, ListQuery(q))) :
              NoneDeleted(listPatients(patients, q, order).data)
    /\ \A body \in {b \in FilterBodies : Has(b, "query")} :
          \A order \in NewestFirst(patients, Find(patients, SearchQuery(body))) :
              NoneDeleted(postSearch(patients, body, order).data)
    /\ \A q \in WithoutOverride(FilterExports) :
          \A order \in NewestFirst(patients, Find(patients, ExportQuery(q))) :
              NoneDeleted(getExport(patients, q, order).patients)
    /\ \A period \in Periods :
          LET all == getStats(patients, now, period)
              live == getStats(Live(patients), now, period)
          IN  /\ \A k \in DOMAIN all.overview \ {"deletedPatients"} :
                    all.overview[k] = live.overview[k]
              /\ \A k \in DOMAIN all \ {"overview"} : all[k] = live[k]
    /\ LET all == getHealth(patients, now).stats
           live == getHealth(Live(patients), now).stats
       IN  \A k \in DOMAIN all \ {"deletedPatients"} : all[k] = live[k]

RECURSIVE SumOf(_, _)
\* the sum of f over the set S
SumOf(S, f) ==
    IF S = {} THEN 0
    ELSE LET x == CHOOSE y \in S : TRUE IN f[x] + SumOf(S \ {x}, f)

\* the count of the bucket of service s in a distribution
Bucket(dist, s) == IF s \in DOMAIN dist THEN dist[s] ELSE 0

\* C25: in the service distribution the count of each service is the number of
\* non-deleted records whose services hold it, and the counts add up to the
\* sizes of the services lists of the non-deleted records
C25_ServiceDistribution ==
    \A period \in Periods :
        LET dist == getStats(patients, now, period).serviceDistribution
            live == Active(patients)
        IN  /\ \A s \in ValidServices \cup DOMAIN dist :
                  Bucket(dist, s) =
                      Cardinality({j \in live : s \in Elements(patients[j].services)})
            /\ SumOf(DOMAIN dist, dist) =
                  SumOf(live, [j \in live |-> Len(patients[j].services)])

\* rate is a nearest integer to the percentage 100 * completed / active
NearestPercent(rate, completed, active) ==
    LET diff == rate * active - 100 * completed
    IN  2 * (IF diff < 0 THEN 0 - diff ELSE diff) <= active

RateAsStated(rate, completed, active) ==
    /\ rate \in 0..100
    /\ active = 0 => rate = 0
    /\ active > 0 => NearestPercent(rate, completed, active)

\* C26: the completion rate of the statistics and of the health check is the
\* percentage of completed among the non-deleted records rounded to the
\* nearest integer, 0 when there is no non-deleted record, and within 0..100;
\* the computation rounds so for every pair of counts up to MaxCount
C26_CompletionRate ==
    /\ LET active == Cardinality(Active(patients))
           completed ==
               Cardinality({j \in Active(patients) : patients[j].status = "completed"})
       IN  /\ \A period \in Periods :
                 RateAsStated(getStats(patients, now, period).overview.completionRate,
                              completed, active)
           /\ RateAsStated(getHealth(patients, now).stats.completionRate,
                           completed, active)
    /\ \A active \in 0..MaxCount : \A completed \in 0..active :
          RateAsStated(completionRate(completed, active), completed, active)

\* a completed record beside a soft-deleted one: the rate is 100, not 50
C26_Witness ==
    /\ \E i, j \in DOMAIN patients :
          /\ patients[i].isDeleted
          /\ ~patients[j].isDeleted /\ patients[j].status = "completed"
    /\ Cardinality(Active(patients)) = 1
    /\ getStats(patients, now, 30).overview.completionRate = 100
    /\ getHealth(patients, now).stats.completionRate = 100
    /\ completionRate(1, 8) = 13

\* the number of records on a page of total records
PageSize(total, page, limit) ==
    LET rest == total - (page - 1) * limit
    IN  IF rest < 0 THEN 0 ELSE IF rest < limit THEN rest ELSE limit

\* C27: the request GET /api/patients/deleted is answered with success and
\* the page of the soft-deleted records it asks for, out of exactly the
\* records whose isDeleted is true; it is not answered as a get-by-id
C27_ListDeleted ==
    \A q \in DeletedQueries :
        \A order \in LastDeletedFirst(patients, Find(patients, [isDeleted |-> TRUE])) :
            LET r == requestDeleted(patients, q, order)
                deleted == {j \in DOMAIN patients : patients[j].isDeleted}
            IN  /\ Dispatch("GET", <<"api", "patients", "deleted">>) # "getPatient"
                /\ r.code = 200
                /\ r.totalPatients = Cardinality(deleted)
                /\ ReturnedIds(r.data) \subseteq deleted
                /\ Len(r.data) = PageSize(Cardinality(deleted), Param(q, "page", 1),
                                         Param(q, "limit", 100))

RECURSIVE ParseFrom(_, _, _, _, _, _)
\* a standard CSV parse of text from position i on: mode is where the parse
\* stands ("start" of a field, in a "plain" field, in a "quoted" field, or
\* after a "quote" inside a quoted field), field and row what it has read of
\* the current field and row, rows the rows it has finished
ParseFrom(text, i, mode, field, row, rows) ==
    IF i > Len(text) THEN Append(rows, Append(row, field))
    ELSE
    LET c == text[i]
    IN  IF mode = "quoted"
        THEN IF c = Quote THEN ParseFrom(text, i + 1, "quote", field, row, rows)
             ELSE ParseFrom(text, i + 1, "quoted", Append(field, c), row, rows)
        ELSE IF c = Comma
        THEN ParseFrom(text, i + 1, "start", <<>>, Append(row, field), rows)
        ELSE IF c = Newline
        THEN ParseFrom(text, i + 1, "start", <<>>, <<>>,
                       Append(rows, Append(row, field)))
        ELSE IF c = Quote /\ mode = "start"
        THEN ParseFrom(text, i + 1, "quoted", field, row, rows)
        ELSE IF c = Quote /\ mode = "quote"
        THEN ParseFrom(text, i + 1, "quoted", Append(field, Quote), row, rows)
        ELSE ParseFrom(text, i + 1, "plain", Append(field, c), row, rows)

ParseCsv(text) == ParseFrom(text, 1, "start", <<>>, <<>>, <<>>)

\* the value holds a character that has a meaning in a CSV text
NeedsQuoting(field) ==
    Includes(field, Comma) \/ Includes(field, Quote) \/ Includes(field, Newline)

RECURSIVE Doubled(_)
\* the value with each of its quotes written twice
Doubled(field) ==
    IF field = <<>> THEN <<>>
    ELSE IF Head(field) = Quote THEN <<Quote, Quote>> \o Doubled(Tail(field))
    ELSE <<Head(field)>> \o Doubled(Tail(field))

\* C28: each value of an exported row is emitted between quotes with its
\* quotes doubled when it holds a comma, a quote or a newline and as it is
\* otherwise, and a standard CSV parse of the exported text gives back the
\* headers and the values of the row exactly
C28_CsvRoundTrip ==
    csv.done =>
        /\ \A k \in 1..Len(csv.row) :
              escapeCsvField(csv.row[k]) =
                  IF NeedsQuoting(csv.row[k])
                  THEN <<Quote>> \o Doubled(csv.row[k]) \o <<Quote>>
                  ELSE csv.row[k]
        /\ ParseCsv(csv.text) = <<Headers, csv.row>>

\* an exported row whose first value holds a quote, a comma and a newline
C28_Witness ==
    /\ csv.done
    /\ csv.row[1] = <<Quote, Comma, Newline>>
    /\ csv.row[2] = <<Quote>>
    /\ ParseCsv(csv.text) = <<Headers, csv.row>>

\* the create calls that have made their insert
Inserted(c) ==
    calls[c].op = "create" /\ calls[c].pc \in {"history", "done"}
    /\ (calls[c].id # 0 \/ calls[c].held)

C30_UpdateNeverChangesDeleted ==
    [][\A c \in DOMAIN calls :
          calls[c].op = "update" /\ calls'[c].pc # calls[c].pc
              => \A j \in DOMAIN patients :
                    patients[j].isDeleted => patients'[j] = patients[j]]_vars
====
